---- MODULE Spec2Model ----
(***************************************************************************)
(* State-machine model of the Go tutorial repository: the tutorial_2       *)
(* program (intDivision and main's switch), the api error writer, and the  *)
(* Go snippets of the guides (Max, MemoryDatabase, the counter examples,   *)
(* workerPool, pipeline).  Each program is a group of variables with its   *)
(* own initial condition, next-state relation and specification; the       *)
(* variables of the programs a specification does not run stay idle.       *)
(***************************************************************************)
EXTENDS Integers, Sequences, FiniteSets, Bags, TLC

VARIABLES
    \* cmd/tutorial_2/main.go
    numerator, denominator, result, reminder, err, divEvaluated, printed, divPc,
    \* the api package's error writer (test-api.sh lines 48-94)
    handler, errText, codeIn, message, code, resp,
    wHeader, wSentHeader, wStatus, wBody, wCalls, httpStep, httpPc,
    \* Max (generics guide)
    values, max, maxI, maxRet, maxPc,
    \* MemoryDatabase (thinking-in-Go guide)
    users, nextID, mu, dbPc, dbUser, dbArg, dbRet, dbSeen, saveReturns, lockOrder,
    \* raceCondition and fixedWithMutex (concurrency guide)
    counter, counterWrites, mutex, wg, cntI, cntMainPc, gPc, gTmp, finalCounter,
    \* workerPool (concurrency guide)
    jobs, jobsClosed, results, wPc, wJob, poolPc, poolW, poolJ, poolR,
    collected, recvCount,
    \* pipeline (concurrency guide)
    pipePc, pipeEven, genPc, genI, sqPc, sqNum, fPc, fSquare,
    numbersClosed, squaresClosed, evensClosed,
    numbersLog, squaresLog, pipeOut, pipePanic,
    \* fanIn (concurrency guide)
    fiPc, fiVal, inputNil, fiIn, fiInClosed, fiToSend, fiSent,
    outputClosed, fiOutLog, fiConsPc, fiPanic,
    \* fanOut (concurrency guide)
    foPc, foVal, foIn, foInClosed, foToSend, foSent, foGot, outClosed,
    foLog, foCons,
    \* waitGroupWithErrors (concurrency guide)
    wgeMainPc, wgeI, wgeCount, wgeWorkerPc, errorsChan, errorsClosed,
    wgeCloserPc, wgeErr, workerErrors, wgeSends, wgePanic, wgeOut

divVars == <<numerator, denominator, result, reminder, err, divEvaluated, printed, divPc>>

httpVars == <<handler, errText, codeIn, message, code, resp,
              wHeader, wSentHeader, wStatus, wBody, wCalls, httpStep, httpPc>>

maxVars == <<values, max, maxI, maxRet, maxPc>>

dbVars == <<users, nextID, mu, dbPc, dbUser, dbArg, dbRet, dbSeen, saveReturns, lockOrder>>

cntVars == <<counter, counterWrites, mutex, wg, cntI, cntMainPc, gPc, gTmp, finalCounter>>

poolVars == <<jobs, jobsClosed, results, wPc, wJob, poolPc, poolW, poolJ, poolR,
              collected, recvCount>>

pipeVars == <<pipePc, pipeEven, genPc, genI, sqPc, sqNum, fPc, fSquare,
              numbersClosed, squaresClosed, evensClosed,
              numbersLog, squaresLog, pipeOut, pipePanic>>

fanInVars == <<fiPc, fiVal, inputNil, fiIn, fiInClosed, fiToSend, fiSent,
               outputClosed, fiOutLog, fiConsPc, fiPanic>>

fanOutVars == <<foPc, foVal, foIn, foInClosed, foToSend, foSent, foGot,
                outClosed, foLog, foCons>>

wgeVars == <<wgeMainPc, wgeI, wgeCount, wgeWorkerPc, errorsChan, errorsClosed,
             wgeCloserPc, wgeErr, workerErrors, wgeSends, wgePanic, wgeOut>>

vars == <<divVars, httpVars, maxVars, dbVars, cntVars, poolVars, pipeVars, fanInVars,
          fanOutVars, wgeVars>>

\* a step of one program leaves the variables of the other programs alone
DivOthers == UNCHANGED <<httpVars, maxVars, dbVars, cntVars, poolVars, pipeVars, fanInVars, fanOutVars, wgeVars>>

HttpOthers == UNCHANGED <<divVars, maxVars, dbVars, cntVars, poolVars, pipeVars, fanInVars, fanOutVars, wgeVars>>

MaxOthers == UNCHANGED <<divVars, httpVars, dbVars, cntVars, poolVars, pipeVars, fanInVars, fanOutVars, wgeVars>>

DBOthers == UNCHANGED <<divVars, httpVars, maxVars, cntVars, poolVars, pipeVars, fanInVars, fanOutVars, wgeVars>>

CntOthers == UNCHANGED <<divVars, httpVars, maxVars, dbVars, poolVars, pipeVars, fanInVars, fanOutVars, wgeVars>>

PoolOthers == UNCHANGED <<divVars, httpVars, maxVars, dbVars, cntVars, pipeVars, fanInVars, fanOutVars, wgeVars>>

PipeOthers == UNCHANGED <<divVars, httpVars, maxVars, dbVars, cntVars, poolVars, fanInVars, fanOutVars, wgeVars>>

FanInOthers == UNCHANGED <<divVars, httpVars, maxVars, dbVars, cntVars, poolVars, pipeVars, fanOutVars, wgeVars>>

FanOutOthers == UNCHANGED <<divVars, httpVars, maxVars, dbVars, cntVars, poolVars, pipeVars, fanInVars, wgeVars>>

WgeOthers == UNCHANGED <<divVars, httpVars, maxVars, dbVars, cntVars, poolVars, pipeVars, fanInVars, fanOutVars>>

\* the nil error value
NilErr == "<nil>"

Abs(x) == IF x < 0 THEN -x ELSE x

(***************************************************************************)
(* cmd/tutorial_2/main.go                                                  *)
(***************************************************************************)

\* numerator and denominator range over -MaxAbs..MaxAbs (main's 10 and 2 included)
MaxAbs == 10

DivInputs == (-MaxAbs)..MaxAbs

\* Go's integer quotient truncates toward zero
Quo(n, d) ==
    IF (n < 0) # (d < 0) THEN -(Abs(n) \div Abs(d)) ELSE Abs(n) \div Abs(d)

\* a floored quotient: what / would be if it rounded toward minus infinity
QuoFloor(n, d) ==
    IF (n < 0) # (d < 0)
    THEN -((Abs(n) + Abs(d) - 1) \div Abs(d))
    ELSE Abs(n) \div Abs(d)

\* Go's remainder takes the sign of the dividend
Rem(n, d) == IF n < 0 THEN -(Abs(n) % Abs(d)) ELSE Abs(n) % Abs(d)

\* the remainder that goes with the floored quotient (sign of the divisor)
RemFloor(n, d) == n - d * QuoFloor(n, d)

ErrDivZero == "Cannot devide by Zero"

\* intDivision with the zero check returning the (nil) zero value of err
intDivisionNilErr(n, d) ==
    IF d = 0
    THEN [result |-> 0, remainder |-> 0, err |-> NilErr, evaluated |-> FALSE]
    ELSE [result |-> Quo(n, d), remainder |-> Rem(n, d), err |-> NilErr,
          evaluated |-> TRUE]

\* intDivision with floored instead of truncated division
intDivisionFloor(n, d) ==
    IF d = 0
    THEN [result |-> 0, remainder |-> 0, err |-> ErrDivZero, evaluated |-> FALSE]
    ELSE [result |-> QuoFloor(n, d), remainder |-> RemFloor(n, d), err |-> NilErr,
          evaluated |-> TRUE]

\* intDivision: what it returns, and whether lines 36-37 (the / and %) ran
intDivision(n, d) ==
    IF d = 0
    THEN [result |-> 0, remainder |-> 0, err |-> ErrDivZero, evaluated |-> FALSE]
    ELSE [result |-> Quo(n, d), remainder |-> Rem(n, d), err |-> NilErr,
          evaluated |-> TRUE]

\* a line written to standard output: which Printf wrote it, and its arguments
Msg(kind, a, b) == [kind |-> kind, a |-> a, b |-> b]

\* main's switch with the remainder case tested before the error case
SwitchMessageRemainderFirst(res, rm, e) ==
    IF rm = 0 THEN Msg("quotient", res, 0)
    ELSE IF e # NilErr THEN Msg("error", 0, 0)
    ELSE Msg("quotientRemainder", res, rm)

\* main's switch: the first case that holds, in source order
SwitchMessage(res, rm, e) ==
    IF e # NilErr THEN Msg("error", 0, 0)
    ELSE IF rm = 0 THEN Msg("quotient", res, 0)
    ELSE Msg("quotientRemainder", res, rm)

DivInit ==
    /\ numerator \in DivInputs
    /\ denominator \in DivInputs
    /\ result = 0
    /\ reminder = 0
    /\ err = NilErr
    /\ divEvaluated = FALSE
    /\ printed = <<>>
    /\ divPc = "printMe"

DivIdle ==
    /\ numerator = 0
    /\ denominator = 0
    /\ result = 0
    /\ reminder = 0
    /\ err = NilErr
    /\ divEvaluated = FALSE
    /\ printed = <<>>
    /\ divPc = "idle"

\* main lines 9-10: printMe("Hello World")
PrintMe ==
    /\ divPc = "printMe"
    /\ printed' = Append(printed, Msg("printMe", 0, 0))
    /\ divPc' = "call"
    /\ UNCHANGED <<numerator, denominator, result, reminder, err, divEvaluated>>
    /\ DivOthers

\* main line 14: var result, reminder, err = intDivision(numerator, denominator)
CallIntDivision ==
    /\ divPc = "call"
    /\ LET ret == intDivision(numerator, denominator) IN
        /\ result' = ret.result
        /\ reminder' = ret.remainder
        /\ err' = ret.err
        /\ divEvaluated' = ret.evaluated
    /\ divPc' = "switch"
    /\ UNCHANGED <<numerator, denominator, printed>>
    /\ DivOthers

\* main lines 16-23: the switch prints one message
MainSwitch ==
    /\ divPc = "switch"
    /\ printed' = Append(printed, SwitchMessage(result, reminder, err))
    /\ divPc' = "done"
    /\ UNCHANGED <<numerator, denominator, result, reminder, err, divEvaluated>>
    /\ DivOthers

DivNext ==
    \/ PrintMe
    \/ CallIntDivision
    \/ MainSwitch


\* the intDivision call has returned
DivReturned == divPc \in {"switch", "done"}

\* C1: called with denominator 0, intDivision returns quotient 0, remainder 0
\* and the non-nil error "Cannot devide by Zero", for every numerator, and the
\* division and the remainder of lines 36-37 are not evaluated
C1_ZeroDenominator ==
    (DivReturned /\ denominator = 0) =>
        /\ result = 0
        /\ reminder = 0
        /\ err # NilErr
        /\ err = ErrDivZero
        /\ ~divEvaluated

C1_Witness == DivReturned /\ denominator = 0 /\ numerator = -3 /\ err = ErrDivZero

\* C2: for a nonzero denominator d, intDivision(n, d) returns (q, r, nil) with
\* n = q*d + r, |r| < |d| and r zero or of the sign of n; the error is nil
\* exactly when d is nonzero
C2_TruncatedDivision ==
    DivReturned =>
        /\ (err = NilErr) <=> (denominator # 0)
        /\ denominator # 0 =>
            /\ numerator = result * denominator + reminder
            /\ Abs(reminder) < Abs(denominator)
            /\ \/ reminder = 0
               \/ (reminder < 0) <=> (numerator < 0)

C2_Witness ==
    /\ DivReturned
    /\ numerator = -7
    /\ denominator = 2
    /\ result = -3
    /\ reminder = -1
    /\ err = NilErr

\* the messages main has printed since intDivision returned
SwitchPrinted == SubSeq(printed, 2, Len(printed))

\* C6: after intDivision returns, main prints exactly one message: the error
\* text alone when err is non-nil (not the quotient-only message, although the
\* remainder is 0), else the quotient-only message when the remainder is 0,
\* else the quotient-with-remainder message
C6_SwitchErrorFirst ==
    /\ divPc = "switch" => Len(printed) = 1
    /\ divPc = "done" =>
        /\ Len(SwitchPrinted) = 1
        /\ err # NilErr => SwitchPrinted[1] = Msg("error", 0, 0)
        /\ (err = NilErr /\ reminder = 0) =>
                SwitchPrinted[1] = Msg("quotient", result, 0)
        /\ (err = NilErr /\ reminder # 0) =>
                SwitchPrinted[1] = Msg("quotientRemainder", result, reminder)

C6_Witness ==
    /\ divPc = "done"
    /\ err # NilErr
    /\ reminder = 0
    /\ SwitchPrinted = <<Msg("error", 0, 0)>>

(***************************************************************************)
(* The api package: writeError, RequestErrorHandler, InternalErrorHandler  *)
(***************************************************************************)

\* http.StatusBadRequest and http.StatusInternalServerError
StatusBadRequest == 400

StatusInternalServerError == 500

InternalMessage == "An Unexpected error ocurred"

\* the messages and status codes the callers pass
Messages == {"", "username is required", "invalid token"}

Codes == {200, 400, 401, 403, 404, 500}

Handlers == {"writeError", "RequestErrorHandler", "InternalErrorHandler"}

\* lines 76-79: resp := Error{Code: code, Message: message}
ErrorOf(m, c) == [Code |-> c, Message |-> m]

\* json.NewEncoder(w).Encode(resp): the exported fields, in declaration order,
\* each under its field name
EncodeJSON(e) == <<<<"Code", e.Code>>, <<"Message", e.Message>>>>

\* the value a JSON object holds under a field name
JSONField(obj, name) == obj[CHOOSE i \in 1..Len(obj) : obj[i][1] = name][2]

\* writeError with the status written before the header is set
writeErrorStepsStatusFirst == <<"WriteHeader", "Header.Set", "Encode">>

\* lines 81-84: the calls writeError makes on w, in source order
writeErrorSteps == <<"Header.Set", "WriteHeader", "Encode">>

\* line 89: writeError(w, err.Error(), http.StatusBadRequest)
RequestErrorHandlerArgs(e) == [message |-> e, code |-> StatusBadRequest]

\* line 92: writeError(w, "An Unexpected error ocurred", http.StatusInternalServerError)
InternalErrorHandlerArgs == [message |-> InternalMessage, code |-> StatusInternalServerError]

HttpInit ==
    /\ handler \in Handlers
    /\ errText \in IF handler = "InternalErrorHandler" THEN {""} ELSE Messages
    /\ codeIn \in IF handler = "writeError" THEN Codes ELSE {0}
    /\ message = ""
    /\ code = 0
    /\ resp = ErrorOf("", 0)
    /\ wHeader = {}
    /\ wSentHeader = {}
    /\ wStatus = 0
    /\ wBody = <<>>
    /\ wCalls = <<>>
    /\ httpStep = 1
    /\ httpPc = "call"

HttpIdle ==
    /\ handler = "none"
    /\ errText = ""
    /\ codeIn = 0
    /\ message = ""
    /\ code = 0
    /\ resp = ErrorOf("", 0)
    /\ wHeader = {}
    /\ wSentHeader = {}
    /\ wStatus = 0
    /\ wBody = <<>>
    /\ wCalls = <<>>
    /\ httpStep = 1
    /\ httpPc = "idle"

\* the response writer as writeError found it
wUnchanged == UNCHANGED <<wHeader, wSentHeader, wStatus, wBody, wCalls>>

\* a direct call writeError(w, message, code)
CallWriteError ==
    /\ httpPc = "call"
    /\ handler = "writeError"
    /\ message' = errText
    /\ code' = codeIn
    /\ httpPc' = "resp"
    /\ wUnchanged
    /\ UNCHANGED <<handler, errText, codeIn, resp, httpStep>>
    /\ HttpOthers

\* RequestErrorHandler(w, err) calls writeError
CallRequestErrorHandler ==
    /\ httpPc = "call"
    /\ handler = "RequestErrorHandler"
    /\ message' = RequestErrorHandlerArgs(errText).message
    /\ code' = RequestErrorHandlerArgs(errText).code
    /\ httpPc' = "resp"
    /\ wUnchanged
    /\ UNCHANGED <<handler, errText, codeIn, resp, httpStep>>
    /\ HttpOthers

\* InternalErrorHandler(w) calls writeError
CallInternalErrorHandler ==
    /\ httpPc = "call"
    /\ handler = "InternalErrorHandler"
    /\ message' = InternalErrorHandlerArgs.message
    /\ code' = InternalErrorHandlerArgs.code
    /\ httpPc' = "resp"
    /\ wUnchanged
    /\ UNCHANGED <<handler, errText, codeIn, resp, httpStep>>
    /\ HttpOthers

\* writeError lines 76-79
BuildResp ==
    /\ httpPc = "resp"
    /\ resp' = ErrorOf(message, code)
    /\ httpPc' = "steps"
    /\ wUnchanged
    /\ UNCHANGED <<handler, errText, codeIn, message, code, httpStep>>
    /\ HttpOthers

\* the step after the current one, or the return
StepDone ==
    /\ httpStep' = httpStep + 1
    /\ httpPc' = IF httpStep = Len(writeErrorSteps) THEN "done" ELSE "steps"
    /\ UNCHANGED <<handler, errText, codeIn, message, code, resp>>

AtStep(name) == httpPc = "steps" /\ writeErrorSteps[httpStep] = name

\* line 81: w.Header().Set("Content-type", "application/json").  (http.Header
\* stores the name in canonical case; header names compare case-insensitively.)
SetHeader ==
    /\ AtStep("Header.Set")
    /\ wHeader' = {h \in wHeader : h[1] # "Content-type"}
                    \cup {<<"Content-type", "application/json">>}
    /\ wCalls' = Append(wCalls, "Header.Set")
    /\ UNCHANGED <<wSentHeader, wStatus, wBody>>
    /\ StepDone
    /\ HttpOthers

\* line 82: w.WriteHeader(code): the header map as it is now is what is sent;
\* a second WriteHeader changes nothing
WriteHeader ==
    /\ AtStep("WriteHeader")
    /\ IF wStatus = 0
       THEN wStatus' = code /\ wSentHeader' = wHeader
       ELSE UNCHANGED <<wStatus, wSentHeader>>
    /\ wCalls' = Append(wCalls, "WriteHeader")
    /\ UNCHANGED <<wHeader, wBody>>
    /\ StepDone
    /\ HttpOthers

\* line 84: json.NewEncoder(w).Encode(resp): a Write before any WriteHeader
\* sends status 200 first
Encode ==
    /\ AtStep("Encode")
    /\ IF wStatus = 0
       THEN wStatus' = 200 /\ wSentHeader' = wHeader
       ELSE UNCHANGED <<wStatus, wSentHeader>>
    /\ wBody' = Append(wBody, EncodeJSON(resp))
    /\ wCalls' = Append(wCalls, "Encode")
    /\ UNCHANGED wHeader
    /\ StepDone
    /\ HttpOthers

HttpNext ==
    \/ CallWriteError
    \/ CallRequestErrorHandler
    \/ CallInternalErrorHandler
    \/ BuildResp
    \/ SetHeader
    \/ WriteHeader
    \/ Encode

IsPrefix(s, t) == Len(s) <= Len(t) /\ SubSeq(t, 1, Len(s)) = s

\* C3: writeError makes exactly three calls, in the order Header.Set (Content-type:
\* application/json), WriteHeader(code), Encode; the body's Code field equals the
\* status written and its Message field equals message; RequestErrorHandler gives
\* status 400 with Message = err.Error(), InternalErrorHandler status 500 with
\* the fixed message
C3_WriteError ==
    /\ IsPrefix(wCalls, <<"Header.Set", "WriteHeader", "Encode">>)
    /\ httpPc = "done" =>
        /\ wCalls = <<"Header.Set", "WriteHeader", "Encode">>
        /\ wSentHeader = {<<"Content-type", "application/json">>}
        /\ wStatus = code
        /\ Len(wBody) = 1
        /\ JSONField(wBody[1], "Code") = wStatus
        /\ JSONField(wBody[1], "Message") = message
        /\ handler = "writeError" => (code = codeIn /\ message = errText)
        /\ handler = "RequestErrorHandler" =>
                (wStatus = 400 /\ JSONField(wBody[1], "Message") = errText)
        /\ handler = "InternalErrorHandler" =>
                /\ wStatus = 500
                /\ JSONField(wBody[1], "Message") = "An Unexpected error ocurred"

C3_Witness ==
    /\ httpPc = "done"
    /\ handler = "RequestErrorHandler"
    /\ errText = "invalid token"
    /\ wStatus = 400
    /\ JSONField(wBody[1], "Message") = "invalid token"

(***************************************************************************)
(* Max[T Ordered](values []T) (T, bool), at T = int                        *)
(***************************************************************************)

\* slices of at most MaxLen elements
MaxLen == 3

\* the numbers in the slices are -MaxElem..MaxElem
MaxElem == 2

\* T = float64, the instance of testMaxFloat64: a number, or NaN
Num(v) == [nan |-> FALSE, val |-> v]

NaN == [nan |-> TRUE, val |-> 0]

Elems == {Num(v) : v \in (-MaxElem)..MaxElem} \cup {NaN}

Slices == UNION {[1..n -> Elems] : n \in 0..MaxLen}

\* var zero T
ZeroValue == Num(0)

\* Go's > and >= on float64: false whenever an operand is NaN
Gt(a, b) == ~a.nan /\ ~b.nan /\ a.val > b.val

Ge(a, b) == ~a.nan /\ ~b.nan /\ a.val >= b.val

\* the loop body with the comparison reversed
MaxStepLess(m, v) == IF Gt(m, v) THEN v ELSE m

\* the loop body, lines 1533-1535: if v > max { max = v }
MaxStep(m, v) == IF Gt(v, m) THEN v ELSE m

MaxInit ==
    /\ values \in Slices
    /\ max = ZeroValue
    /\ maxI = 0
    /\ maxRet = [value |-> ZeroValue, ok |-> FALSE]
    /\ maxPc = "call"

MaxIdle ==
    /\ values = <<>>
    /\ max = ZeroValue
    /\ maxI = 0
    /\ maxRet = [value |-> ZeroValue, ok |-> FALSE]
    /\ maxPc = "idle"

\* lines 1526-1529: the empty slice returns the zero value and false
MaxEmpty ==
    /\ maxPc = "call"
    /\ Len(values) = 0
    /\ maxRet' = [value |-> ZeroValue, ok |-> FALSE]
    /\ maxPc' = "returned"
    /\ UNCHANGED <<values, max, maxI>>
    /\ MaxOthers

\* line 1531: max := values[0]; the loop then ranges over values[1:]
MaxFirst ==
    /\ maxPc = "call"
    /\ Len(values) # 0
    /\ max' = values[1]
    /\ maxI' = 2
    /\ maxPc' = "loop"
    /\ UNCHANGED <<values, maxRet>>
    /\ MaxOthers

\* lines 1532-1536: one iteration of the range loop
MaxLoop ==
    /\ maxPc = "loop"
    /\ maxI <= Len(values)
    /\ max' = MaxStep(max, values[maxI])
    /\ maxI' = maxI + 1
    /\ UNCHANGED <<values, maxRet, maxPc>>
    /\ MaxOthers

\* line 1537: return max, true
MaxReturn ==
    /\ maxPc = "loop"
    /\ maxI > Len(values)
    /\ maxRet' = [value |-> max, ok |-> TRUE]
    /\ maxPc' = "returned"
    /\ UNCHANGED <<values, max, maxI>>
    /\ MaxOthers

MaxNext ==
    \/ MaxEmpty
    \/ MaxFirst
    \/ MaxLoop
    \/ MaxReturn

HasNaN(sl) == \E i \in 1..Len(sl) : sl[i].nan

\* C4 as stated: Max returns (zero value, false) for the empty slice, and for
\* every non-empty slice (m, true) with m an element of the slice and m >= every
\* element
C4_MaxEverySlice ==
    maxPc = "returned" =>
        IF Len(values) = 0
        THEN maxRet = [value |-> Num(0), ok |-> FALSE]
        ELSE /\ maxRet.ok
             /\ \E i \in 1..Len(values) : values[i] = maxRet.value
             /\ \A i \in 1..Len(values) : Ge(maxRet.value, values[i])

\* C4 (amended): Max returns (zero value, false) for the empty slice, and for
\* every non-empty slice (m, true) with m an element of the slice; when no
\* element is NaN, m >= every element
C4_Max ==
    maxPc = "returned" =>
        IF Len(values) = 0
        THEN maxRet = [value |-> Num(0), ok |-> FALSE]
        ELSE /\ maxRet.ok
             /\ \E i \in 1..Len(values) : values[i] = maxRet.value
             /\ ~HasNaN(values) =>
                    \A i \in 1..Len(values) : Ge(maxRet.value, values[i])

C4_Witness ==
    /\ maxPc = "returned"
    /\ values = <<Num(-1), Num(2), Num(-2)>>
    /\ maxRet = [value |-> Num(2), ok |-> TRUE]

(***************************************************************************)
(* MemoryDatabase: SaveUser and GetUser called from concurrent clients     *)
(***************************************************************************)

\* the goroutines that call the database
Clients == {"c1", "c2"}

\* the model stops calling SaveUser after MaxSaves calls
MaxSaves == 3

Names == {"John", "Ann"}

\* the IDs GetUser is asked for: ID 0, the IDs SaveUser can assign, and one more
GetIDs == 0..(MaxSaves + 1)

User(id, name) == [ID |-> id, Name |-> name]

\* the zero User{} value
ZeroUser == User(0, "")

ErrNotFound == "user not found"

NoClient == "none"

\* a Lock that never waits
CanLockAlways(c) == TRUE

\* db.mu.Lock() returns once no writer and no reader holds the mutex
CanLock(c) == mu.writer = NoClient /\ mu.readers = {}

\* db.mu.RLock() returns once no writer holds the mutex
CanRLock(c) == mu.writer = NoClient

\* NewMemoryDatabase(): an empty map, nextID 0, an unlocked mutex
DBInit ==
    /\ users = <<>>
    /\ nextID = 0
    /\ mu = [writer |-> NoClient, readers |-> {}]
    /\ dbPc = [c \in Clients |-> "idle"]
    /\ dbUser = [c \in Clients |-> ZeroUser]
    /\ dbArg = [c \in Clients |-> 0]
    /\ dbRet = [c \in Clients |-> [user |-> ZeroUser, err |-> NilErr]]
    /\ dbSeen = [c \in Clients |-> [returns |-> 0, nextID |-> 0]]
    /\ saveReturns = <<>>
    /\ lockOrder = <<>>

DBIdle ==
    /\ users = <<>>
    /\ nextID = 0
    /\ mu = [writer |-> NoClient, readers |-> {}]
    /\ dbPc = <<>>
    /\ dbUser = <<>>
    /\ dbArg = <<>>
    /\ dbRet = <<>>
    /\ dbSeen = <<>>
    /\ saveReturns = <<>>
    /\ lockOrder = <<>>

\* the number of SaveUser calls made so far
SavesStarted == Len(saveReturns) + Cardinality({c \in Clients : dbPc[c] \in
                    {"saveLock", "saveInc", "saveSetID", "saveStore", "saveReturn"}})

\* a client calls SaveUser(user); the ID the caller passes is overwritten
CallSaveUser(c) ==
    /\ dbPc[c] = "idle"
    /\ SavesStarted < MaxSaves
    /\ \E name \in Names, id \in {0, 1} :
            dbUser' = [dbUser EXCEPT ![c] = User(id, name)]
    /\ dbPc' = [dbPc EXCEPT ![c] = "saveLock"]
    /\ UNCHANGED <<users, nextID, mu, dbArg, dbRet, dbSeen, saveReturns, lockOrder>>
    /\ DBOthers

\* line 1049: db.mu.Lock()
SaveLock(c) ==
    /\ dbPc[c] = "saveLock"
    /\ CanLock(c)
    /\ mu' = [mu EXCEPT !.writer = c]
    /\ lockOrder' = Append(lockOrder, c)
    /\ dbPc' = [dbPc EXCEPT ![c] = "saveInc"]
    /\ UNCHANGED <<users, nextID, dbUser, dbArg, dbRet, dbSeen, saveReturns>>
    /\ DBOthers

\* line 1052: db.nextID++
SaveInc(c) ==
    /\ dbPc[c] = "saveInc"
    /\ nextID' = nextID + 1
    /\ dbPc' = [dbPc EXCEPT ![c] = "saveSetID"]
    /\ UNCHANGED <<users, mu, dbUser, dbArg, dbRet, dbSeen, saveReturns, lockOrder>>
    /\ DBOthers

\* line 1053: user.ID = db.nextID
SaveSetID(c) ==
    /\ dbPc[c] = "saveSetID"
    /\ dbUser' = [dbUser EXCEPT ![c].ID = nextID]
    /\ dbPc' = [dbPc EXCEPT ![c] = "saveStore"]
    /\ UNCHANGED <<users, nextID, mu, dbArg, dbRet, dbSeen, saveReturns, lockOrder>>
    /\ DBOthers

\* line 1054: db.users[user.ID] = user
SaveStore(c) ==
    /\ dbPc[c] = "saveStore"
    /\ users' = [id \in (DOMAIN users) \cup {dbUser[c].ID} |->
                    IF id = dbUser[c].ID THEN dbUser[c] ELSE users[id]]
    /\ dbPc' = [dbPc EXCEPT ![c] = "saveReturn"]
    /\ UNCHANGED <<nextID, mu, dbUser, dbArg, dbRet, dbSeen, saveReturns, lockOrder>>
    /\ DBOthers

\* line 1055 and the deferred Unlock of line 1050: return user, nil.  The
\* returned user is appended to saveReturns; the call's locals end with it
SaveReturn(c) ==
    /\ dbPc[c] = "saveReturn"
    /\ saveReturns' = Append(saveReturns, [user |-> dbUser[c], by |-> c])
    /\ mu' = [mu EXCEPT !.writer = IF mu.writer = c THEN NoClient ELSE mu.writer]
    /\ dbUser' = [dbUser EXCEPT ![c] = ZeroUser]
    /\ dbPc' = [dbPc EXCEPT ![c] = "idle"]
    /\ UNCHANGED <<users, nextID, dbArg, dbRet, dbSeen, lockOrder>>
    /\ DBOthers

\* a client calls GetUser(id)
CallGetUser(c) ==
    /\ dbPc[c] = "idle"
    /\ \E id \in GetIDs : dbArg' = [dbArg EXCEPT ![c] = id]
    /\ dbPc' = [dbPc EXCEPT ![c] = "getRLock"]
    /\ UNCHANGED <<users, nextID, mu, dbUser, dbRet, dbSeen, saveReturns, lockOrder>>
    /\ DBOthers

\* line 1059: db.mu.RLock()
GetRLock(c) ==
    /\ dbPc[c] = "getRLock"
    /\ CanRLock(c)
    /\ mu' = [mu EXCEPT !.readers = @ \cup {c}]
    /\ dbPc' = [dbPc EXCEPT ![c] = "getLookup"]
    /\ UNCHANGED <<users, nextID, dbUser, dbArg, dbRet, dbSeen, saveReturns, lockOrder>>
    /\ DBOthers

\* lines 1062-1066: the lookup and the value returned.  dbSeen notes how many
\* SaveUser calls had returned, and the value of nextID, at the lookup
GetLookup(c) ==
    /\ dbPc[c] = "getLookup"
    /\ dbRet' = [dbRet EXCEPT ![c] =
                    IF dbArg[c] \in DOMAIN users
                    THEN [user |-> users[dbArg[c]], err |-> NilErr]
                    ELSE [user |-> ZeroUser, err |-> ErrNotFound]]
    /\ dbSeen' = [dbSeen EXCEPT ![c] =
                    [returns |-> Len(saveReturns), nextID |-> nextID]]
    /\ dbPc' = [dbPc EXCEPT ![c] = "getReturn"]
    /\ UNCHANGED <<users, nextID, mu, dbUser, dbArg, saveReturns, lockOrder>>
    /\ DBOthers

\* the deferred RUnlock of line 1060, and the return; the call's locals end
GetReturn(c) ==
    /\ dbPc[c] = "getReturn"
    /\ mu' = [mu EXCEPT !.readers = @ \ {c}]
    /\ dbArg' = [dbArg EXCEPT ![c] = 0]
    /\ dbRet' = [dbRet EXCEPT ![c] = [user |-> ZeroUser, err |-> NilErr]]
    /\ dbSeen' = [dbSeen EXCEPT ![c] = [returns |-> 0, nextID |-> 0]]
    /\ dbPc' = [dbPc EXCEPT ![c] = "idle"]
    /\ UNCHANGED <<users, nextID, dbUser, saveReturns, lockOrder>>
    /\ DBOthers

DBNext ==
    \E c \in Clients :
        \/ CallSaveUser(c)
        \/ SaveLock(c)
        \/ SaveInc(c)
        \/ SaveSetID(c)
        \/ SaveStore(c)
        \/ SaveReturn(c)
        \/ CallGetUser(c)
        \/ GetRLock(c)
        \/ GetLookup(c)
        \/ GetReturn(c)

\* C5: every SaveUser returns a non-zero ID that no other SaveUser returned, the
\* IDs increasing strictly in the order the calls acquired the lock; a GetUser(i)
\* that looks up after SaveUser returned i gets the user saved under i and no
\* error; a GetUser of an ID not assigned gets the "user not found" error
C5_MemoryDatabase ==
    /\ \A k \in 1..Len(saveReturns) : saveReturns[k].user.ID # 0
    /\ Len(saveReturns) <= Len(lockOrder)
    /\ \A k \in 1..Len(saveReturns) : saveReturns[k].by = lockOrder[k]
    /\ \A k, l \in 1..Len(saveReturns) :
            k < l => saveReturns[k].user.ID < saveReturns[l].user.ID
    /\ \A c \in Clients : dbPc[c] = "getReturn" =>
        /\ \A k \in 1..dbSeen[c].returns :
                saveReturns[k].user.ID = dbArg[c] =>
                    dbRet[c] = [user |-> saveReturns[k].user, err |-> NilErr]
        /\ dbArg[c] \notin 1..dbSeen[c].nextID =>
                dbRet[c] = [user |-> ZeroUser, err |-> ErrNotFound]

C5_Witness ==
    /\ Len(saveReturns) = 2
    /\ saveReturns[1].user.ID # saveReturns[2].user.ID
    /\ saveReturns[1].by # saveReturns[2].by
    /\ \E c \in Clients :
        /\ dbPc[c] = "getReturn"
        /\ dbArg[c] = 2
        /\ dbRet[c] = [user |-> saveReturns[2].user, err |-> NilErr]

(***************************************************************************)
(* raceCondition and fixedWithMutex: goroutines incrementing a counter     *)
(***************************************************************************)

\* the number of goroutines launched (1000 in the guide)
NumGoroutines == 3

Goroutines == 1..NumGoroutines

NoGoroutine == 0

\* a mutex.Lock() that never waits
MutexFreeAlways == TRUE

\* mutex.Lock() returns once no goroutine holds the mutex
MutexFree == mutex = NoGoroutine

\* a wg.Wait() that returns at once
WaitReturnsAtOnce == TRUE

\* wg.Wait() returns once the counter of the WaitGroup is zero
WaitReturns == wg = 0

CntInit ==
    /\ counter = 0
    /\ counterWrites = {0}
    /\ mutex = NoGoroutine
    /\ wg = 0
    /\ cntI = 0
    /\ cntMainPc = "loop"
    /\ gPc = [g \in Goroutines |-> "unborn"]
    /\ gTmp = [g \in Goroutines |-> 0]
    /\ finalCounter = 0

CntIdle ==
    /\ counter = 0
    /\ counterWrites = {}
    /\ mutex = NoGoroutine
    /\ wg = 0
    /\ cntI = 0
    /\ cntMainPc = "idle"
    /\ gPc = <<>>
    /\ gTmp = <<>>
    /\ finalCounter = 0

\* one iteration of main's loop: wg.Add(1), then the go statement.  The new
\* goroutine starts at `first`
Launch(first) ==
    /\ cntMainPc = "loop"
    /\ cntI < NumGoroutines
    /\ wg' = wg + 1
    /\ gPc' = [gPc EXCEPT ![cntI + 1] = first]
    /\ cntI' = cntI + 1
    /\ UNCHANGED <<counter, counterWrites, mutex, cntMainPc, gTmp, finalCounter>>
    /\ CntOthers

\* the loop ends and main calls wg.Wait()
LoopExit ==
    /\ cntMainPc = "loop"
    /\ cntI = NumGoroutines
    /\ cntMainPc' = "wait"
    /\ UNCHANGED <<counter, counterWrites, mutex, wg, cntI, gPc, gTmp, finalCounter>>
    /\ CntOthers

\* wg.Wait() returns
Wait ==
    /\ cntMainPc = "wait"
    /\ WaitReturns
    /\ cntMainPc' = "print"
    /\ UNCHANGED <<counter, counterWrites, mutex, wg, cntI, gPc, gTmp, finalCounter>>
    /\ CntOthers

\* the deferred wg.Done() as the goroutine returns
Done(g) ==
    /\ gPc[g] = "done"
    /\ wg' = wg - 1
    /\ gPc' = [gPc EXCEPT ![g] = "exited"]
    /\ UNCHANGED <<counter, counterWrites, mutex, cntI, cntMainPc, gTmp, finalCounter>>
    /\ CntOthers

\* ---- fixedWithMutex

\* line 914: mutex.Lock()
Lock(g) ==
    /\ gPc[g] = "lock"
    /\ MutexFree
    /\ mutex' = g
    /\ gPc' = [gPc EXCEPT ![g] = "read"]
    /\ UNCHANGED <<counter, counterWrites, wg, cntI, cntMainPc, gTmp, finalCounter>>
    /\ CntOthers

\* line 915, counter++: the load
LockedRead(g) ==
    /\ gPc[g] = "read"
    /\ gTmp' = [gTmp EXCEPT ![g] = counter]
    /\ gPc' = [gPc EXCEPT ![g] = "write"]
    /\ UNCHANGED <<counter, counterWrites, mutex, wg, cntI, cntMainPc, finalCounter>>
    /\ CntOthers

\* line 915, counter++: the store
LockedWrite(g) ==
    /\ gPc[g] = "write"
    /\ counter' = gTmp[g] + 1
    /\ counterWrites' = counterWrites \cup {gTmp[g] + 1}
    /\ gPc' = [gPc EXCEPT ![g] = "unlock"]
    /\ UNCHANGED <<mutex, wg, cntI, cntMainPc, gTmp, finalCounter>>
    /\ CntOthers

\* line 916: mutex.Unlock()
Unlock(g) ==
    /\ gPc[g] = "unlock"
    /\ mutex' = NoGoroutine
    /\ gPc' = [gPc EXCEPT ![g] = "done"]
    /\ UNCHANGED <<counter, counterWrites, wg, cntI, cntMainPc, gTmp, finalCounter>>
    /\ CntOthers

\* line 921: main reads counter; every store happened before every later
\* Lock, and the last Unlock before wg.Wait() returned
MutexPrint ==
    /\ cntMainPc = "print"
    /\ finalCounter' = counter
    /\ cntMainPc' = "done"
    /\ UNCHANGED <<counter, counterWrites, mutex, wg, cntI, gPc, gTmp>>
    /\ CntOthers

MutexNext ==
    \/ Launch("lock")
    \/ LoopExit
    \/ Wait
    \/ MutexPrint
    \/ \E g \in Goroutines :
        \/ Lock(g)
        \/ LockedRead(g)
        \/ LockedWrite(g)
        \/ Unlock(g)
        \/ Done(g)

\* ---- raceCondition

\* line 890, counter++: the load.  Nothing orders it with the other
\* goroutines' stores: it observes the initial value or any value stored so far
RacyRead(g) ==
    /\ gPc[g] = "racyRead"
    /\ \E v \in counterWrites : gTmp' = [gTmp EXCEPT ![g] = v]
    /\ gPc' = [gPc EXCEPT ![g] = "racyWrite"]
    /\ UNCHANGED <<counter, counterWrites, mutex, wg, cntI, cntMainPc, finalCounter>>
    /\ CntOthers

\* line 890, counter++: the store
RacyWrite(g) ==
    /\ gPc[g] = "racyWrite"
    /\ counter' = gTmp[g] + 1
    /\ counterWrites' = counterWrites \cup {gTmp[g] + 1}
    /\ gPc' = [gPc EXCEPT ![g] = "done"]
    /\ UNCHANGED <<mutex, wg, cntI, cntMainPc, gTmp, finalCounter>>
    /\ CntOthers

\* the values main's read of counter can observe: once every goroutine is
\* done, any goroutine's store (all happened before the read, none before
\* another); while a goroutine may still store, the initial value as well
Observable ==
    IF \A g \in Goroutines : gPc[g] = "exited"
    THEN counterWrites \ {0}
    ELSE counterWrites

\* line 895: main reads counter
RacyPrint ==
    /\ cntMainPc = "print"
    /\ \E v \in Observable : finalCounter' = v
    /\ cntMainPc' = "done"
    /\ UNCHANGED <<counter, counterWrites, mutex, wg, cntI, gPc, gTmp>>
    /\ CntOthers

RaceNext ==
    \/ Launch("racyRead")
    \/ LoopExit
    \/ Wait
    \/ RacyPrint
    \/ \E g \in Goroutines :
        \/ RacyRead(g)
        \/ RacyWrite(g)
        \/ Done(g)

\* the goroutines between Lock and Unlock
InCritical == {g \in Goroutines : gPc[g] \in {"read", "write", "unlock"}}

\* C7: fixedWithMutex: the counter read after wg.Wait() is exactly the number
\* of goroutines, in every interleaving, and at most one goroutine is
\* between Lock and Unlock at any time
C7_FixedWithMutex ==
    /\ cntMainPc = "done" => finalCounter = NumGoroutines
    /\ Cardinality(InCritical) <= 1

C7_Witness ==
    /\ cntMainPc = "done"
    /\ finalCounter = Cardinality(Goroutines)
    /\ \A g \in Goroutines : gPc[g] = "exited"

\* C8: raceCondition: the counter read after wg.Wait() lies between 1 and the
\* number of goroutines; a value strictly below that number (a lost update) is
\* reachable
C8_RaceCondition ==
    cntMainPc = "done" => (finalCounter >= 1 /\ finalCounter <= NumGoroutines)

\* a lost update: every goroutine has incremented and the counter read is short
C8_Witness ==
    /\ cntMainPc = "done"
    /\ \A g \in Goroutines : gPc[g] = "exited"
    /\ finalCounter < Cardinality(Goroutines)
    /\ finalCounter = counter

(***************************************************************************)
(* workerPool and worker                                                   *)
(***************************************************************************)

numWorkers == 3

numJobs == 10

Workers == 1..numWorkers

Jobs == 1..numJobs

\* make(chan int, numJobs), for jobs and for results
ChanCap == numJobs

\* a worker that adds 2 instead of doubling
JobResultPlus(job) == job + 2

\* line 411: the value a worker sends for a job
JobResult(job) == job * 2

PoolInit ==
    /\ jobs = <<>>
    /\ jobsClosed = FALSE
    /\ results = <<>>
    /\ wPc = [w \in Workers |-> "unborn"]
    /\ wJob = [w \in Workers |-> 0]
    /\ poolPc = "start"
    /\ poolW = 1
    /\ poolJ = 1
    /\ poolR = 1
    /\ collected = EmptyBag
    /\ recvCount = [j \in Jobs |-> 0]

PoolIdle ==
    /\ jobs = <<>>
    /\ jobsClosed = FALSE
    /\ results = <<>>
    /\ wPc = <<>>
    /\ wJob = <<>>
    /\ poolPc = "idle"
    /\ poolW = 1
    /\ poolJ = 1
    /\ poolR = 1
    /\ collected = EmptyBag
    /\ recvCount = <<>>

\* lines 390-392: go worker(w, jobs, results)
StartWorker ==
    /\ poolPc = "start"
    /\ poolW <= numWorkers
    /\ wPc' = [wPc EXCEPT ![poolW] = "recv"]
    /\ poolW' = poolW + 1
    /\ UNCHANGED <<jobs, jobsClosed, results, wJob, poolPc, poolJ, poolR,
                   collected, recvCount>>
    /\ PoolOthers

StartDone ==
    /\ poolPc = "start"
    /\ poolW > numWorkers
    /\ poolPc' = "send"
    /\ UNCHANGED <<jobs, jobsClosed, results, wPc, wJob, poolW, poolJ, poolR,
                   collected, recvCount>>
    /\ PoolOthers

\* lines 395-397: jobs <- j, which waits while the buffer is full
SendJob ==
    /\ poolPc = "send"
    /\ poolJ <= numJobs
    /\ Len(jobs) < ChanCap
    /\ jobs' = Append(jobs, poolJ)
    /\ poolJ' = poolJ + 1
    /\ UNCHANGED <<jobsClosed, results, wPc, wJob, poolPc, poolW, poolR,
                   collected, recvCount>>
    /\ PoolOthers

\* line 398: close(jobs)
CloseJobs ==
    /\ poolPc = "send"
    /\ poolJ > numJobs
    /\ jobsClosed' = TRUE
    /\ poolPc' = "collect"
    /\ UNCHANGED <<jobs, results, wPc, wJob, poolW, poolJ, poolR,
                   collected, recvCount>>
    /\ PoolOthers

\* lines 401-404: result := <-results, which waits while the buffer is empty;
\* collected is the bag of the values received so far
Collect ==
    /\ poolPc = "collect"
    /\ poolR <= numJobs
    /\ results # <<>>
    /\ collected' = collected (+) SetToBag({Head(results)})
    /\ results' = Tail(results)
    /\ poolR' = poolR + 1
    /\ UNCHANGED <<jobs, jobsClosed, wPc, wJob, poolPc, poolW, poolJ, recvCount>>
    /\ PoolOthers

\* line 405: workerPool returns
CollectDone ==
    /\ poolPc = "collect"
    /\ poolR > numJobs
    /\ poolPc' = "done"
    /\ UNCHANGED <<jobs, jobsClosed, results, wPc, wJob, poolW, poolJ, poolR,
                   collected, recvCount>>
    /\ PoolOthers

\* line 408: for job := range jobs receives the next job
WorkerRecv(w) ==
    /\ wPc[w] = "recv"
    /\ jobs # <<>>
    /\ wJob' = [wJob EXCEPT ![w] = Head(jobs)]
    /\ jobs' = Tail(jobs)
    /\ recvCount' = [recvCount EXCEPT ![Head(jobs)] = @ + 1]
    /\ wPc' = [wPc EXCEPT ![w] = "send"]
    /\ UNCHANGED <<jobsClosed, results, poolPc, poolW, poolJ, poolR, collected>>
    /\ PoolOthers

\* line 408: the range loop ends once jobs is closed and empty
WorkerExit(w) ==
    /\ wPc[w] = "recv"
    /\ jobs = <<>>
    /\ jobsClosed
    /\ wPc' = [wPc EXCEPT ![w] = "exited"]
    /\ UNCHANGED <<jobs, jobsClosed, results, wJob, poolPc, poolW, poolJ, poolR,
                   collected, recvCount>>
    /\ PoolOthers

\* lines 409-411: results <- job * 2, which waits while the buffer is full
WorkerSend(w) ==
    /\ wPc[w] = "send"
    /\ Len(results) < ChanCap
    /\ results' = Append(results, JobResult(wJob[w]))
    /\ wJob' = [wJob EXCEPT ![w] = 0]
    /\ wPc' = [wPc EXCEPT ![w] = "recv"]
    /\ UNCHANGED <<jobs, jobsClosed, poolPc, poolW, poolJ, poolR, collected,
                   recvCount>>
    /\ PoolOthers

PoolMain ==
    \/ StartWorker
    \/ StartDone
    \/ SendJob
    \/ CloseJobs
    \/ Collect
    \/ CollectDone

Worker(w) ==
    \/ WorkerRecv(w)
    \/ WorkerExit(w)
    \/ WorkerSend(w)

PoolNext == PoolMain \/ \E w \in Workers : Worker(w)

PoolTerminated ==
    /\ poolPc = "done"
    /\ \A w \in Workers : wPc[w] = "exited"

\* the bag {2*j : j in 1..numJobs}
ExpectedResults == [v \in {2 * j : j \in Jobs} |-> 1]

PcRank(pc) ==
    CASE pc = "start" -> 0
      [] pc = "send" -> 1
      [] pc = "collect" -> 2
      [] pc = "done" -> 3

RECURSIVE SumTo(_, _)
SumTo(f, n) == IF n = 0 THEN 0 ELSE f[n] + SumTo(f, n - 1)

\* the number of steps taken so far: every step of main or of a worker adds one
PoolProgress ==
    poolW + poolJ + poolR + PcRank(poolPc)
    + SumTo(recvCount, numJobs)
    + Len(results) + BagCardinality(collected)
    + Cardinality({w \in Workers : wPc[w] = "exited"})

\* the steps of a complete run: the three loop counters at their ends, three
\* changes of main's position, a receive and a send per job, an exit per worker
PoolProgressMax ==
    (numWorkers + 1) + 2 * (numJobs + 1) + 3 + 2 * numJobs + numWorkers

PoolSafe ==
    /\ \A j \in Jobs : recvCount[j] <= 1
    /\ \A k \in 1..Len(results) : results[k] \in DOMAIN ExpectedResults
    /\ collected \sqsubseteq ExpectedResults
    /\ BagCardinality(collected) = poolR - 1
    /\ poolPc = "done" =>
        /\ collected = ExpectedResults
        /\ poolR = numJobs + 1
        /\ \A j \in Jobs : recvCount[j] = 1
    /\ \A w \in Workers : wPc[w] = "exited" => (jobsClosed /\ jobs = <<>>)

\* no goroutine is stuck: until main has returned and every worker has left its
\* loop, some goroutine can take a step
PoolNotStuck == PoolTerminated \/ ENABLED PoolNext

\* C9: workerPool with 3 workers, 10 jobs and both channels buffered to 10: every
\* job 1..10 is received by exactly one worker, the bag of results main collects
\* is exactly {2*j : j in 1..10}, main's loop ends after 10 receives, no goroutine
\* blocks forever, and every worker leaves its range loop after jobs is closed
\* and drained.  Termination is stated as: some goroutine can step until all have
\* finished, and every step adds one to a count that cannot pass PoolProgressMax;
\* so every run in which runnable goroutines are run ends with all finished
C9_WorkerPool ==
    /\ []PoolSafe
    /\ [](PoolNotStuck /\ PoolProgress <= PoolProgressMax)
    /\ [](PoolTerminated => PoolProgress = PoolProgressMax)
    /\ [][PoolProgress' = PoolProgress + 1]_vars

C9_Witness ==
    /\ PoolTerminated
    /\ collected = ExpectedResults
    /\ \A j \in Jobs : recvCount[j] = 1
    /\ results = <<>>

(***************************************************************************)
(* pipeline: three stages over unbuffered channels, and main's range loop  *)
(***************************************************************************)

\* line 422: the generator sends 1..10
PipeLast == 10

\* the filter keeping the odd squares
KeepOdd(square) == square % 2 = 1

\* line 441: if square%2 == 0
Keep(square) == square % 2 = 0

PipeInit ==
    /\ pipePc = "goGen"
    /\ pipeEven = 0
    /\ genPc = "unborn"
    /\ genI = 1
    /\ sqPc = "unborn"
    /\ sqNum = 0
    /\ fPc = "unborn"
    /\ fSquare = 0
    /\ numbersClosed = FALSE
    /\ squaresClosed = FALSE
    /\ evensClosed = FALSE
    /\ numbersLog = <<>>
    /\ squaresLog = <<>>
    /\ pipeOut = <<>>
    /\ pipePanic = FALSE

PipeIdle ==
    /\ pipePc = "idle"
    /\ pipeEven = 0
    /\ genPc = "idle"
    /\ genI = 1
    /\ sqPc = "idle"
    /\ sqNum = 0
    /\ fPc = "idle"
    /\ fSquare = 0
    /\ numbersClosed = FALSE
    /\ squaresClosed = FALSE
    /\ evensClosed = FALSE
    /\ numbersLog = <<>>
    /\ squaresLog = <<>>
    /\ pipeOut = <<>>
    /\ pipePanic = FALSE

\* lines 420-426: numbers is made and the generator goroutine started
GoGen ==
    /\ pipePc = "goGen"
    /\ genPc' = "test"
    /\ pipePc' = "goSq"
    /\ UNCHANGED <<pipeEven, genI, sqPc, sqNum, fPc, fSquare, numbersClosed, squaresClosed,
                   evensClosed, numbersLog, squaresLog, pipeOut, pipePanic>>
    /\ PipeOthers

\* lines 429-435: squares is made and the squaring goroutine started
GoSq ==
    /\ pipePc = "goSq"
    /\ sqPc' = "recv"
    /\ pipePc' = "goFilter"
    /\ UNCHANGED <<pipeEven, genPc, genI, fPc, fSquare, numbersClosed, squaresClosed,
                   evensClosed, sqNum, numbersLog, squaresLog, pipeOut, pipePanic>>
    /\ PipeOthers

\* lines 438-446: evens is made and the filter goroutine started
GoFilter ==
    /\ pipePc = "goFilter"
    /\ fPc' = "recv"
    /\ pipePc' = "recv"
    /\ UNCHANGED <<pipeEven, genPc, genI, sqPc, sqNum, fSquare, numbersClosed, squaresClosed,
                   evensClosed, numbersLog, squaresLog, pipeOut, pipePanic>>
    /\ PipeOthers

\* line 422: the loop test i <= 10
TestI ==
    /\ genPc = "test"
    /\ genPc' = IF genI <= PipeLast THEN "send" ELSE "close"
    /\ UNCHANGED <<pipeEven, pipePc, genI, sqPc, sqNum, fPc, fSquare, numbersClosed,
                   squaresClosed, evensClosed, numbersLog, squaresLog, pipeOut,
                   pipePanic>>
    /\ PipeOthers

\* line 423 meeting line 431: numbers <- i hands i to the squarer's range; a
\* send on a closed channel panics
SendNumber ==
    /\ genPc = "send"
    /\ IF numbersClosed
       THEN /\ pipePanic' = TRUE
            /\ genPc' = "panicked"
            /\ UNCHANGED <<sqPc, sqNum, numbersLog>>
       ELSE /\ sqPc = "recv"
            /\ sqNum' = genI
            /\ numbersLog' = Append(numbersLog, genI)
            /\ sqPc' = "send"
            /\ genPc' = "inc"
            /\ UNCHANGED pipePanic
    /\ UNCHANGED <<pipeEven, pipePc, genI, fPc, fSquare, numbersClosed, squaresClosed,
                   evensClosed, squaresLog, pipeOut>>
    /\ PipeOthers

\* line 422: i++
IncI ==
    /\ genPc = "inc"
    /\ genI' = genI + 1
    /\ genPc' = "test"
    /\ UNCHANGED <<pipeEven, pipePc, sqPc, sqNum, fPc, fSquare, numbersClosed,
                   squaresClosed, evensClosed, numbersLog, squaresLog, pipeOut,
                   pipePanic>>
    /\ PipeOthers

\* line 425: close(numbers)
CloseNumbers ==
    /\ genPc = "close"
    /\ numbersClosed' = TRUE
    /\ genPc' = "exited"
    /\ UNCHANGED <<pipeEven, pipePc, genI, sqPc, sqNum, fPc, fSquare, squaresClosed,
                   evensClosed, numbersLog, squaresLog, pipeOut, pipePanic>>
    /\ PipeOthers

\* line 431: the range over numbers ends once numbers is closed
NumbersDrained ==
    /\ sqPc = "recv"
    /\ numbersClosed
    /\ sqPc' = "close"
    /\ UNCHANGED <<pipeEven, pipePc, genPc, genI, sqNum, fPc, fSquare, numbersClosed,
                   squaresClosed, evensClosed, numbersLog, squaresLog, pipeOut,
                   pipePanic>>
    /\ PipeOthers

\* line 432 meeting line 440: squares <- num * num
SendSquare ==
    /\ sqPc = "send"
    /\ IF squaresClosed
       THEN /\ pipePanic' = TRUE
            /\ sqPc' = "panicked"
            /\ UNCHANGED <<fPc, fSquare, squaresLog>>
       ELSE /\ fPc = "recv"
            /\ fSquare' = sqNum * sqNum
            /\ squaresLog' = Append(squaresLog, sqNum * sqNum)
            /\ fPc' = "test"
            /\ sqPc' = "recv"
            /\ UNCHANGED pipePanic
    /\ UNCHANGED <<pipeEven, pipePc, genPc, genI, sqNum, numbersClosed, squaresClosed,
                   evensClosed, numbersLog, pipeOut>>
    /\ PipeOthers

\* line 434: close(squares)
CloseSquares ==
    /\ sqPc = "close"
    /\ squaresClosed' = TRUE
    /\ sqPc' = "exited"
    /\ UNCHANGED <<pipeEven, pipePc, genPc, genI, sqNum, fPc, fSquare, numbersClosed,
                   evensClosed, numbersLog, squaresLog, pipeOut, pipePanic>>
    /\ PipeOthers

\* line 441: the filter's test
TestSquare ==
    /\ fPc = "test"
    /\ fPc' = IF Keep(fSquare) THEN "send" ELSE "recv"
    /\ UNCHANGED <<pipeEven, pipePc, genPc, genI, sqPc, sqNum, fSquare, numbersClosed,
                   squaresClosed, evensClosed, numbersLog, squaresLog, pipeOut,
                   pipePanic>>
    /\ PipeOthers

\* line 440: the range over squares ends once squares is closed
SquaresDrained ==
    /\ fPc = "recv"
    /\ squaresClosed
    /\ fPc' = "close"
    /\ UNCHANGED <<pipeEven, pipePc, genPc, genI, sqPc, sqNum, fSquare, numbersClosed,
                   squaresClosed, evensClosed, numbersLog, squaresLog, pipeOut,
                   pipePanic>>
    /\ PipeOthers

\* line 442 meeting line 449: evens <- square, received by main's range
SendEven ==
    /\ fPc = "send"
    /\ IF evensClosed
       THEN /\ pipePanic' = TRUE
            /\ fPc' = "panicked"
            /\ UNCHANGED <<pipePc, pipeEven>>
       ELSE /\ pipePc = "recv"
            /\ pipeEven' = fSquare
            /\ pipePc' = "print"
            /\ fPc' = "recv"
            /\ UNCHANGED pipePanic
    /\ UNCHANGED <<genPc, genI, sqPc, sqNum, fSquare, numbersClosed,
                   squaresClosed, evensClosed, numbersLog, squaresLog, pipeOut>>
    /\ PipeOthers

\* line 450: main prints the value received
PrintEven ==
    /\ pipePc = "print"
    /\ pipeOut' = Append(pipeOut, pipeEven)
    /\ pipePc' = "recv"
    /\ UNCHANGED <<genPc, genI, sqPc, sqNum, fPc, fSquare, pipeEven, numbersClosed,
                   squaresClosed, evensClosed, numbersLog, squaresLog, pipePanic>>
    /\ PipeOthers

\* line 445: close(evens)
CloseEvens ==
    /\ fPc = "close"
    /\ evensClosed' = TRUE
    /\ fPc' = "exited"
    /\ UNCHANGED <<pipeEven, pipePc, genPc, genI, sqPc, sqNum, fSquare, numbersClosed,
                   squaresClosed, numbersLog, squaresLog, pipeOut, pipePanic>>
    /\ PipeOthers

\* line 449: main's range over evens ends once evens is closed
EvensDrained ==
    /\ pipePc = "recv"
    /\ evensClosed
    /\ pipePc' = "done"
    /\ UNCHANGED <<pipeEven, genPc, genI, sqPc, sqNum, fPc, fSquare, numbersClosed,
                   squaresClosed, evensClosed, numbersLog, squaresLog, pipeOut,
                   pipePanic>>
    /\ PipeOthers

PipeNext ==
    \/ GoGen
    \/ GoSq
    \/ GoFilter
    \/ TestI
    \/ SendNumber
    \/ IncI
    \/ CloseNumbers
    \/ NumbersDrained
    \/ SendSquare
    \/ CloseSquares
    \/ TestSquare
    \/ SquaresDrained
    \/ SendEven
    \/ PrintEven
    \/ CloseEvens
    \/ EvensDrained

RECURSIVE SelectEven(_)
SelectEven(sq) ==
    IF sq = <<>> THEN <<>>
    ELSE IF Head(sq) % 2 = 0 THEN <<Head(sq)>> \o SelectEven(Tail(sq))
    ELSE SelectEven(Tail(sq))

PipeTerminated ==
    /\ pipePc = "done"
    /\ genPc = "exited"
    /\ sqPc = "exited"
    /\ fPc = "exited"

PipeSafe ==
    /\ ~pipePanic
    /\ IsPrefix(pipeOut, <<4, 16, 36, 64, 100>>)
    /\ pipePc = "done" => pipeOut = <<4, 16, 36, 64, 100>>
    /\ numbersClosed => numbersLog = [k \in 1..PipeLast |-> k]
    /\ squaresClosed =>
        /\ numbersClosed
        /\ squaresLog = [k \in 1..Len(numbersLog) |-> numbersLog[k] * numbersLog[k]]
    /\ evensClosed =>
        /\ squaresClosed
        /\ pipeOut \o (IF pipePc = "print" THEN <<pipeEven>> ELSE <<>>)
                = SelectEven(squaresLog)

\* C10: pipeline: main receives exactly 4, 16, 36, 64, 100 in that order; each
\* stage closes its output only after its input is closed and every value
\* received from it was forwarded; no value is sent on a closed channel; the
\* three stage goroutines and main's range loop terminate
C10_Pipeline == []PipeSafe /\ <>PipeTerminated

C10_Witness ==
    /\ PipeTerminated
    /\ pipeOut = <<4, 16, 36, 64, 100>>
    /\ evensClosed
    /\ ~pipePanic

(***************************************************************************)
(* fanIn: one goroutine merging two input channels into output             *)
(***************************************************************************)

\* each producer sends at most MaxSend values before it closes its channel
MaxSend == 2

\* the values a sent-but-unreceived send can leave waiting on an input channel
\* (its buffer, or the blocked sender of an unbuffered channel)
InCap == 1

Inputs == {1, 2}

\* the k-th value sent on input i
InVal(i, k) == 10 * i + k

\* the loop ending as soon as one input is nil
EitherNil(n1, n2) == n1 \/ n2

\* line 497: if input1 == nil && input2 == nil
BothNil(n1, n2) == n1 /\ n2

FanInInit ==
    /\ fiPc = "select"
    /\ fiVal = 0
    /\ inputNil = [i \in Inputs |-> FALSE]
    /\ fiIn = [i \in Inputs |-> <<>>]
    /\ fiInClosed = [i \in Inputs |-> FALSE]
    /\ fiToSend \in [Inputs -> 0..MaxSend]
    /\ fiSent = [i \in Inputs |-> <<>>]
    /\ outputClosed = FALSE
    /\ fiOutLog = <<>>
    /\ fiConsPc = "recv"
    /\ fiPanic = FALSE

FanInIdle ==
    /\ fiPc = "idle"
    /\ fiVal = 0
    /\ inputNil = <<>>
    /\ fiIn = <<>>
    /\ fiInClosed = <<>>
    /\ fiToSend = <<>>
    /\ fiSent = <<>>
    /\ outputClosed = FALSE
    /\ fiOutLog = <<>>
    /\ fiConsPc = "idle"
    /\ fiPanic = FALSE

\* the caller's side of input i: a send
ProducerSend(i) ==
    /\ ~fiInClosed[i]
    /\ Len(fiSent[i]) < fiToSend[i]
    /\ Len(fiIn[i]) < InCap
    /\ fiIn' = [fiIn EXCEPT ![i] = Append(@, InVal(i, Len(fiSent[i]) + 1))]
    /\ fiSent' = [fiSent EXCEPT ![i] = Append(@, InVal(i, Len(fiSent[i]) + 1))]
    /\ UNCHANGED <<fiPc, fiVal, inputNil, fiInClosed, fiToSend, outputClosed,
                   fiOutLog, fiConsPc, fiPanic>>
    /\ FanInOthers

\* the caller's side of input i: close, after its last send
ProducerClose(i) ==
    /\ ~fiInClosed[i]
    /\ Len(fiSent[i]) = fiToSend[i]
    /\ fiInClosed' = [fiInClosed EXCEPT ![i] = TRUE]
    /\ UNCHANGED <<fiPc, fiVal, inputNil, fiIn, fiToSend, fiSent, outputClosed,
                   fiOutLog, fiConsPc, fiPanic>>
    /\ FanInOthers

\* lines 482-494: the select takes case i when input i is not nil and has a
\* value or is closed; a closed and drained input becomes nil
FanInRecv(i) ==
    /\ fiPc = "select"
    /\ ~inputNil[i]
    /\ IF fiIn[i] # <<>>
       THEN /\ fiVal' = Head(fiIn[i])
            /\ fiIn' = [fiIn EXCEPT ![i] = Tail(@)]
            /\ fiPc' = "send"
            /\ UNCHANGED inputNil
       ELSE /\ fiInClosed[i]
            /\ inputNil' = [inputNil EXCEPT ![i] = TRUE]
            /\ fiPc' = "check"
            /\ UNCHANGED <<fiVal, fiIn>>
    /\ UNCHANGED <<fiInClosed, fiToSend, fiSent, outputClosed, fiOutLog,
                   fiConsPc, fiPanic>>
    /\ FanInOthers

\* lines 487 and 493: output <- val, handed to the consumer's receive; a send
\* on a closed channel panics
FanInSend ==
    /\ fiPc = "send"
    /\ IF outputClosed
       THEN /\ fiPanic' = TRUE
            /\ fiPc' = "panicked"
            /\ UNCHANGED <<fiVal, fiOutLog>>
       ELSE /\ fiConsPc = "recv"
            /\ fiOutLog' = Append(fiOutLog, fiVal)
            /\ fiVal' = 0
            /\ fiPc' = "check"
            /\ UNCHANGED fiPanic
    /\ UNCHANGED <<inputNil, fiIn, fiInClosed, fiToSend, fiSent, outputClosed,
                   fiConsPc>>
    /\ FanInOthers

\* lines 497-499: break once both inputs are nil
FanInCheck ==
    /\ fiPc = "check"
    /\ fiPc' = IF BothNil(inputNil[1], inputNil[2]) THEN "close" ELSE "select"
    /\ UNCHANGED <<fiVal, inputNil, fiIn, fiInClosed, fiToSend, fiSent,
                   outputClosed, fiOutLog, fiConsPc, fiPanic>>
    /\ FanInOthers

\* line 501: close(output), and the goroutine ends
FanInClose ==
    /\ fiPc = "close"
    /\ outputClosed' = TRUE
    /\ fiPc' = "exited"
    /\ UNCHANGED <<fiVal, inputNil, fiIn, fiInClosed, fiToSend, fiSent,
                   fiOutLog, fiConsPc, fiPanic>>
    /\ FanInOthers

\* the consumer's receive finds output closed
FanInConsumerDone ==
    /\ fiConsPc = "recv"
    /\ outputClosed
    /\ fiConsPc' = "done"
    /\ UNCHANGED <<fiPc, fiVal, inputNil, fiIn, fiInClosed, fiToSend, fiSent,
                   outputClosed, fiOutLog, fiPanic>>
    /\ FanInOthers

FanInNext ==
    \/ \E i \in Inputs : ProducerSend(i)
    \/ \E i \in Inputs : ProducerClose(i)
    \/ \E i \in Inputs : FanInRecv(i)
    \/ FanInSend
    \/ FanInCheck
    \/ FanInClose
    \/ FanInConsumerDone

\* the values of a sequence that came from input i, in order
RECURSIVE FromInput(_, _)
FromInput(sq, i) ==
    IF sq = <<>> THEN <<>>
    ELSE IF Head(sq) \div 10 = i THEN <<Head(sq)>> \o FromInput(Tail(sq), i)
    ELSE FromInput(Tail(sq), i)

\* the value the goroutine has received and not yet sent on
FanInHeld == IF fiPc = "send" THEN <<fiVal>> ELSE <<>>

FanInSafe ==
    /\ ~fiPanic
    /\ \A i \in Inputs :
        FromInput(fiOutLog \o FanInHeld, i) \o fiIn[i] = fiSent[i]
    /\ Len(fiOutLog) + Len(FanInHeld) + Len(fiIn[1]) + Len(fiIn[2])
            = Len(fiSent[1]) + Len(fiSent[2])
    /\ outputClosed =>
        /\ fiPc = "exited"
        /\ \A i \in Inputs :
            /\ fiInClosed[i]
            /\ fiIn[i] = <<>>
            /\ FromInput(fiOutLog, i) = fiSent[i]
            /\ Len(fiSent[i]) = fiToSend[i]

FanInTerminated ==
    /\ fiPc = "exited"
    /\ outputClosed
    /\ fiConsPc = "done"

\* C11: fanIn, with a consumer that keeps receiving: every value sent on input1
\* or input2 is forwarded to output exactly once, each input's order kept;
\* output is closed only after both inputs are closed and drained, and is
\* closed once they are; the goroutine then ends and never sends on the closed
\* output
C11_FanIn == []FanInSafe /\ <>FanInTerminated

C11_Witness ==
    /\ FanInTerminated
    /\ fiOutLog = <<21, 11, 22, 12>>
    /\ fiSent[1] = <<11, 12>>
    /\ fiSent[2] = <<21, 22>>

(***************************************************************************)
(* fanOut: one goroutine distributing an input channel over out1 and out2  *)
(***************************************************************************)

Outs == {1, 2}

\* a select that sends the value on every output with a ready receiver
SelectEveryReady(ready) == IF ready = {} THEN {} ELSE {ready}

\* lines 464-467: the select proceeds with exactly one of the sends that has
\* a ready receiver, and blocks when there is none
SelectChoices(ready) == {{c} : c \in ready}

FanOutInit ==
    /\ foPc = "range"
    /\ foVal = 0
    /\ foIn = <<>>
    /\ foInClosed = FALSE
    /\ foToSend \in 0..MaxSend
    /\ foSent = 0
    /\ foGot = <<>>
    /\ outClosed = [c \in Outs |-> FALSE]
    /\ foLog = [c \in Outs |-> <<>>]
    /\ foCons = [c \in Outs |-> "busy"]

FanOutIdle ==
    /\ foPc = "idle"
    /\ foVal = 0
    /\ foIn = <<>>
    /\ foInClosed = FALSE
    /\ foToSend = 0
    /\ foSent = 0
    /\ foGot = <<>>
    /\ outClosed = <<>>
    /\ foLog = <<>>
    /\ foCons = <<>>

\* the caller's side of input: a send of the next value, 1, 2, ...
FanOutProducerSend ==
    /\ ~foInClosed
    /\ foSent < foToSend
    /\ Len(foIn) < InCap
    /\ foIn' = Append(foIn, foSent + 1)
    /\ foSent' = foSent + 1
    /\ UNCHANGED <<foPc, foVal, foInClosed, foToSend, foGot, outClosed, foLog, foCons>>
    /\ FanOutOthers

\* the caller's side of input: close, after its last send
FanOutProducerClose ==
    /\ ~foInClosed
    /\ foSent = foToSend
    /\ foInClosed' = TRUE
    /\ UNCHANGED <<foPc, foVal, foIn, foToSend, foSent, foGot, outClosed, foLog, foCons>>
    /\ FanOutOthers

\* line 463: for val := range input, a value received
FanOutRecv ==
    /\ foPc = "range"
    /\ foIn # <<>>
    /\ foVal' = Head(foIn)
    /\ foIn' = Tail(foIn)
    /\ foGot' = Append(foGot, Head(foIn))
    /\ foPc' = "select"
    /\ UNCHANGED <<foInClosed, foToSend, foSent, outClosed, foLog, foCons>>
    /\ FanOutOthers

\* line 463: the range ends on the closed and drained input
FanOutDrained ==
    /\ foPc = "range"
    /\ foIn = <<>>
    /\ foInClosed
    /\ foPc' = "close1"
    /\ UNCHANGED <<foVal, foIn, foInClosed, foToSend, foSent, foGot, outClosed,
                   foLog, foCons>>
    /\ FanOutOthers

\* lines 464-467: select { case out1 <- val: case out2 <- val: }, the value
\* handed to the receiver of the chosen output
FanOutSelect ==
    /\ foPc = "select"
    /\ \E T \in SelectChoices({c \in Outs : foCons[c] = "recv"}) :
        /\ foLog' = [c \in Outs |->
                        IF c \in T THEN Append(foLog[c], foVal) ELSE foLog[c]]
        /\ foCons' = [c \in Outs |-> IF c \in T THEN "busy" ELSE foCons[c]]
    /\ foVal' = 0
    /\ foPc' = "range"
    /\ UNCHANGED <<foIn, foInClosed, foToSend, foSent, foGot, outClosed>>
    /\ FanOutOthers

\* line 469: close(out1)
FanOutClose1 ==
    /\ foPc = "close1"
    /\ outClosed' = [outClosed EXCEPT ![1] = TRUE]
    /\ foPc' = "close2"
    /\ UNCHANGED <<foVal, foIn, foInClosed, foToSend, foSent, foGot, foLog, foCons>>
    /\ FanOutOthers

\* line 470: close(out2), and the goroutine ends
FanOutClose2 ==
    /\ foPc = "close2"
    /\ outClosed' = [outClosed EXCEPT ![2] = TRUE]
    /\ foPc' = "exited"
    /\ UNCHANGED <<foVal, foIn, foInClosed, foToSend, foSent, foGot, foLog, foCons>>
    /\ FanOutOthers

\* the reader of output c comes to its receive
FanOutConsumerReady(c) ==
    /\ foCons[c] = "busy"
    /\ foCons' = [foCons EXCEPT ![c] = "recv"]
    /\ UNCHANGED <<foPc, foVal, foIn, foInClosed, foToSend, foSent, foGot,
                   outClosed, foLog>>
    /\ FanOutOthers

\* the receive of the reader of output c finds the channel closed
FanOutConsumerDone(c) ==
    /\ foCons[c] = "recv"
    /\ outClosed[c]
    /\ foCons' = [foCons EXCEPT ![c] = "done"]
    /\ UNCHANGED <<foPc, foVal, foIn, foInClosed, foToSend, foSent, foGot,
                   outClosed, foLog>>
    /\ FanOutOthers

FanOutNext ==
    \/ FanOutProducerSend
    \/ FanOutProducerClose
    \/ FanOutRecv
    \/ FanOutDrained
    \/ FanOutSelect
    \/ FanOutClose1
    \/ FanOutClose2
    \/ \E c \in Outs : FanOutConsumerReady(c)
    \/ \E c \in Outs : FanOutConsumerDone(c)

\* the caller of fanOut, and the goroutine it starts
FanOutProducer == FanOutProducerSend \/ FanOutProducerClose

FanOutGoroutine ==
    FanOutRecv \/ FanOutDrained \/ FanOutSelect \/ FanOutClose1 \/ FanOutClose2

\* how many times v occurs in sq
Occurrences(sq, v) == Cardinality({k \in 1..Len(sq) : sq[k] = v})

\* how many copies of v are delivered or still held by the goroutine
FanOutCopies(v) ==
    Occurrences(foLog[1], v) + Occurrences(foLog[2], v)
        + (IF foPc = "select" /\ foVal = v THEN 1 ELSE 0)

FanOutSafe ==
    /\ \A k \in 1..Len(foGot) : FanOutCopies(foGot[k]) = 1
    /\ Len(foLog[1]) + Len(foLog[2]) + (IF foPc = "select" THEN 1 ELSE 0) = Len(foGot)
    /\ outClosed[2] => outClosed[1]
    /\ outClosed[1] =>
        /\ foPc \in {"close2", "exited"}
        /\ foInClosed
        /\ foIn = <<>>
        /\ Len(foGot) = foToSend
        /\ Len(foLog[1]) + Len(foLog[2]) = Len(foGot)

\* the select leaves with the value on exactly one output, and it can leave
\* as soon as one output has a receiver
FanOutDelivers ==
    (foPc = "select" /\ foPc' # "select") =>
        \E c \in Outs :
            /\ foCons[c] = "recv"
            /\ foLog'[c] = Append(foLog[c], foVal)
            /\ \A d \in Outs \ {c} : foLog'[d] = foLog[d]

FanOutTerminated ==
    /\ foPc = "exited"
    /\ outClosed[1]
    /\ outClosed[2]

\* C12: fanOut: every value received from input is delivered to exactly one of
\* out1 and out2, never both and never dropped; out1 and out2 are closed after
\* input is closed and every received value is delivered; with a receiver on
\* only one of the outputs the values all go to that output
C12_FanOut == []FanOutSafe /\ [][FanOutDelivers]_vars /\ <>FanOutTerminated

\* all values delivered on out1 while out2 never had a receiver
C12_Witness ==
    /\ FanOutTerminated
    /\ foLog[1] = <<1, 2>>
    /\ foLog[2] = <<>>
    /\ foCons[2] = "busy"

(***************************************************************************)
(* waitGroupWithErrors: three workers reporting on a buffered channel      *)
(***************************************************************************)

\* line 679: for i := 1; i <= 3; i++
wgeNumWorkers == 3

\* line 677: make(chan error, 3)
errorsCap == 3

\* line 686: if id == 2
wgeFailingId == 2

WgeIds == 1..wgeNumWorkers

\* line 687: fmt.Errorf("worker %d failed", id)
WgeErrorf(id) == "worker " \o ToString(id) \o " failed"

\* lines 686-692: what worker id sends on errors
WgeWorkerValue(id) == IF id = wgeFailingId THEN WgeErrorf(id) ELSE NilErr

\* a Wait that returns whatever the counter is
WgeWaitReturnsAtOnce(n) == n >= 0

\* line 698: wg.Wait() returns when the counter is zero
WgeWaitReturns(n) == n = 0

WgeInit ==
    /\ wgeMainPc = "loop"
    /\ wgeI = 1
    /\ wgeCount = 0
    /\ wgeWorkerPc = [id \in WgeIds |-> "unstarted"]
    /\ errorsChan = <<>>
    /\ errorsClosed = FALSE
    /\ wgeCloserPc = "unstarted"
    /\ wgeErr = NilErr
    /\ workerErrors = <<>>
    /\ wgeSends = [id \in WgeIds |-> 0]
    /\ wgePanic = FALSE
    /\ wgeOut = ""

WgeIdle ==
    /\ wgeMainPc = "idle"
    /\ wgeI = 0
    /\ wgeCount = 0
    /\ wgeWorkerPc = <<>>
    /\ errorsChan = <<>>
    /\ errorsClosed = FALSE
    /\ wgeCloserPc = "idle"
    /\ wgeErr = NilErr
    /\ workerErrors = <<>>
    /\ wgeSends = <<>>
    /\ wgePanic = FALSE
    /\ wgeOut = ""

\* line 679: the loop test
WgeLoop ==
    /\ wgeMainPc = "loop"
    /\ wgeMainPc' = IF wgeI <= wgeNumWorkers THEN "add" ELSE "goCloser"
    /\ UNCHANGED <<wgeI, wgeCount, wgeWorkerPc, errorsChan, errorsClosed,
                   wgeCloserPc, wgeErr, workerErrors, wgeSends, wgePanic, wgeOut>>
    /\ WgeOthers

\* line 680: wg.Add(1)
WgeAdd ==
    /\ wgeMainPc = "add"
    /\ wgeCount' = wgeCount + 1
    /\ wgeMainPc' = "go"
    /\ UNCHANGED <<wgeI, wgeWorkerPc, errorsChan, errorsClosed, wgeCloserPc,
                   wgeErr, workerErrors, wgeSends, wgePanic, wgeOut>>
    /\ WgeOthers

\* lines 682-693 and 679: go func(id int) {...}(i); i++
WgeGo ==
    /\ wgeMainPc = "go"
    /\ wgeWorkerPc' = [wgeWorkerPc EXCEPT ![wgeI] = "run"]
    /\ wgeI' = wgeI + 1
    /\ wgeMainPc' = "loop"
    /\ UNCHANGED <<wgeCount, errorsChan, errorsClosed, wgeCloserPc, wgeErr,
                   workerErrors, wgeSends, wgePanic, wgeOut>>
    /\ WgeOthers

\* lines 697-700: go func() { wg.Wait(); close(errors) }()
WgeGoCloser ==
    /\ wgeMainPc = "goCloser"
    /\ wgeCloserPc' = "wait"
    /\ wgeMainPc' = "range"
    /\ UNCHANGED <<wgeI, wgeCount, wgeWorkerPc, errorsChan, errorsClosed,
                   wgeErr, workerErrors, wgeSends, wgePanic, wgeOut>>
    /\ WgeOthers

\* lines 687 and 692: errors <- ..., which waits for room in the buffer and
\* panics on a closed channel
WgeWorkerSend(id) ==
    /\ wgeWorkerPc[id] = "run"
    /\ IF errorsClosed
       THEN /\ wgePanic' = TRUE
            /\ wgeWorkerPc' = [wgeWorkerPc EXCEPT ![id] = "panicked"]
            /\ UNCHANGED <<errorsChan, wgeSends>>
       ELSE /\ Len(errorsChan) < errorsCap
            /\ errorsChan' = Append(errorsChan, WgeWorkerValue(id))
            /\ wgeSends' = [wgeSends EXCEPT ![id] = @ + 1]
            /\ wgeWorkerPc' = [wgeWorkerPc EXCEPT ![id] = "sent"]
            /\ UNCHANGED wgePanic
    /\ UNCHANGED <<wgeMainPc, wgeI, wgeCount, errorsClosed, wgeCloserPc,
                   wgeErr, workerErrors, wgeOut>>
    /\ WgeOthers

\* line 683: defer wg.Done(), run as the worker returns
WgeWorkerDone(id) ==
    /\ wgeWorkerPc[id] = "sent"
    /\ wgeCount' = wgeCount - 1
    /\ wgeWorkerPc' = [wgeWorkerPc EXCEPT ![id] = "exited"]
    /\ UNCHANGED <<wgeMainPc, wgeI, errorsChan, errorsClosed, wgeCloserPc,
                   wgeErr, workerErrors, wgeSends, wgePanic, wgeOut>>
    /\ WgeOthers

\* line 698: wg.Wait()
WgeCloserWait ==
    /\ wgeCloserPc = "wait"
    /\ WgeWaitReturns(wgeCount)
    /\ wgeCloserPc' = "close"
    /\ UNCHANGED <<wgeMainPc, wgeI, wgeCount, wgeWorkerPc, errorsChan,
                   errorsClosed, wgeErr, workerErrors, wgeSends, wgePanic, wgeOut>>
    /\ WgeOthers

\* line 699: close(errors)
WgeCloserClose ==
    /\ wgeCloserPc = "close"
    /\ errorsClosed' = TRUE
    /\ wgeCloserPc' = "exited"
    /\ UNCHANGED <<wgeMainPc, wgeI, wgeCount, wgeWorkerPc, errorsChan, wgeErr,
                   workerErrors, wgeSends, wgePanic, wgeOut>>
    /\ WgeOthers

\* line 704: for err := range errors, a value received or the loop's end on
\* the closed and drained channel
WgeRange ==
    /\ wgeMainPc = "range"
    /\ IF errorsChan # <<>>
       THEN /\ wgeErr' = Head(errorsChan)
            /\ errorsChan' = Tail(errorsChan)
            /\ wgeMainPc' = "test"
       ELSE /\ errorsClosed
            /\ wgeMainPc' = "report"
            /\ UNCHANGED <<wgeErr, errorsChan>>
    /\ UNCHANGED <<wgeI, wgeCount, wgeWorkerPc, errorsClosed, wgeCloserPc,
                   workerErrors, wgeSends, wgePanic, wgeOut>>
    /\ WgeOthers

\* lines 705-707: if err != nil { workerErrors = append(workerErrors, err) }
WgeTest ==
    /\ wgeMainPc = "test"
    /\ workerErrors' = IF wgeErr # NilErr THEN Append(workerErrors, wgeErr)
                       ELSE workerErrors
    /\ wgeMainPc' = "range"
    /\ UNCHANGED <<wgeI, wgeCount, wgeWorkerPc, errorsChan, errorsClosed,
                   wgeCloserPc, wgeErr, wgeSends, wgePanic, wgeOut>>
    /\ WgeOthers

\* lines 710-714: the report
WgeReport ==
    /\ wgeMainPc = "report"
    /\ wgeOut' = IF Len(workerErrors) > 0 THEN "Errors occurred"
                 ELSE "All workers completed successfully!"
    /\ wgeMainPc' = "done"
    /\ UNCHANGED <<wgeI, wgeCount, wgeWorkerPc, errorsChan, errorsClosed,
                   wgeCloserPc, wgeErr, workerErrors, wgeSends, wgePanic>>
    /\ WgeOthers

WgeNext ==
    \/ WgeLoop
    \/ WgeAdd
    \/ WgeGo
    \/ WgeGoCloser
    \/ \E id \in WgeIds : WgeWorkerSend(id)
    \/ \E id \in WgeIds : WgeWorkerDone(id)
    \/ WgeCloserWait
    \/ WgeCloserClose
    \/ WgeRange
    \/ WgeTest
    \/ WgeReport

WgeSafe ==
    /\ ~wgePanic
    /\ \A id \in WgeIds :
        /\ wgeSends[id] <= 1
        /\ wgeWorkerPc[id] = "exited" => wgeSends[id] = 1
    /\ errorsClosed => \A id \in WgeIds : wgeSends[id] = 1 /\ wgeWorkerPc[id] = "exited"
    /\ Len(errorsChan) <= errorsCap
    /\ Len(workerErrors) <= 1
    /\ wgeMainPc \in {"report", "done"} =>
        /\ errorsClosed
        /\ errorsChan = <<>>
        /\ workerErrors = <<WgeErrorf(wgeFailingId)>>
    /\ wgeMainPc = "done" => wgeOut = "Errors occurred"

WgeTerminated ==
    /\ wgeMainPc = "done"
    /\ wgeCloserPc = "exited"
    /\ \A id \in WgeIds : wgeWorkerPc[id] = "exited"

\* C13: waitGroupWithErrors: each of the 3 workers sends exactly one value on
\* errors (buffer 3) before Done; errors is closed only after all three have
\* sent, so no send hits a closed channel; main's range loop ends; and the
\* collected workerErrors holds exactly one error, that of worker 2
C13_WaitGroupWithErrors == []WgeSafe /\ <>WgeTerminated

C13_Witness ==
    /\ WgeTerminated
    /\ workerErrors = <<"worker 2 failed">>
    /\ \A id \in WgeIds : wgeSends[id] = 1

(***************************************************************************)
(* Specifications: one per program; the other programs' variables idle     *)
(***************************************************************************)

InitDiv == DivInit /\ HttpIdle /\ MaxIdle /\ DBIdle /\ CntIdle /\ PoolIdle /\ PipeIdle /\ FanInIdle /\ FanOutIdle /\ WgeIdle

SpecDiv == InitDiv /\ [][DivNext]_vars

InitHttp == DivIdle /\ HttpInit /\ MaxIdle /\ DBIdle /\ CntIdle /\ PoolIdle /\ PipeIdle /\ FanInIdle /\ FanOutIdle /\ WgeIdle

SpecHttp == InitHttp /\ [][HttpNext]_vars

InitMax == DivIdle /\ HttpIdle /\ MaxInit /\ DBIdle /\ CntIdle /\ PoolIdle /\ PipeIdle /\ FanInIdle /\ FanOutIdle /\ WgeIdle

SpecMax == InitMax /\ [][MaxNext]_vars

InitDB == DivIdle /\ HttpIdle /\ MaxIdle /\ DBInit /\ CntIdle /\ PoolIdle /\ PipeIdle /\ FanInIdle /\ FanOutIdle /\ WgeIdle

SpecDB == InitDB /\ [][DBNext]_vars

InitCnt == DivIdle /\ HttpIdle /\ MaxIdle /\ DBIdle /\ CntInit /\ PoolIdle /\ PipeIdle /\ FanInIdle /\ FanOutIdle /\ WgeIdle

SpecMutex == InitCnt /\ [][MutexNext]_vars

SpecRace == InitCnt /\ [][RaceNext]_vars

InitPool == DivIdle /\ HttpIdle /\ MaxIdle /\ DBIdle /\ CntIdle /\ PoolInit /\ PipeIdle /\ FanInIdle /\ FanOutIdle /\ WgeIdle

\* every goroutine that can take a step eventually takes one
FairSpecPool ==
    /\ InitPool
    /\ [][PoolNext]_vars
    /\ WF_vars(PoolMain)
    /\ \A w \in Workers : WF_vars(Worker(w))

InitPipe == DivIdle /\ HttpIdle /\ MaxIdle /\ DBIdle /\ CntIdle /\ PoolIdle /\ PipeInit /\ FanInIdle /\ FanOutIdle /\ WgeIdle

\* a goroutine that can take a step is eventually run
FairSpecPipe == InitPipe /\ [][PipeNext]_vars /\ WF_vars(PipeNext)

InitFanIn == DivIdle /\ HttpIdle /\ MaxIdle /\ DBIdle /\ CntIdle /\ PoolIdle /\ PipeIdle /\ FanInInit /\ FanOutIdle /\ WgeIdle

\* the producers, the goroutine and the consumer are run when they can step
FairSpecFanIn == InitFanIn /\ [][FanInNext]_vars /\ WF_vars(FanInNext)

InitFanOut == DivIdle /\ HttpIdle /\ MaxIdle /\ DBIdle /\ CntIdle /\ PoolIdle /\ PipeIdle /\ FanInIdle /\ FanOutInit /\ WgeIdle

\* the caller, the goroutine and the reader of out1 are run when they can
\* step; the reader of out2 may never come to its receive
FairSpecFanOut ==
    /\ InitFanOut
    /\ [][FanOutNext]_vars
    /\ WF_vars(FanOutProducer)
    /\ WF_vars(FanOutGoroutine)
    /\ WF_vars(FanOutConsumerReady(1))

InitWge == DivIdle /\ HttpIdle /\ MaxIdle /\ DBIdle /\ CntIdle /\ PoolIdle /\ PipeIdle /\ FanInIdle /\ FanOutIdle /\ WgeInit

\* every goroutine that can step is eventually run
FairSpecWge == InitWge /\ [][WgeNext]_vars /\ WF_vars(WgeNext)

====
